---- MODULE Spec2Model ----
(***************************************************************************)
(* Model of MazeSolver.c: the Grid, the iterative-backtracker generator,   *)
(* the BFS and DFS solvers with their ring queue / stack, the parent-walk  *)
(* reconstruction and the configuration prologue of main.                  *)
(*                                                                         *)
(* Three specifications share the variables:                               *)
(*   Spec        the loop of main: generate_maze, then the solve that main *)
(*               dispatches from (1,1) to (rows-2, cols-2), then the key   *)
(*               that regenerates, toggles or quits, on small odd grids    *)
(*               (FairSpec adds the fairness of the program's own loops);  *)
(*   SpecSolve   solve_bfs / solve_dfs called on an arbitrary grid of      *)
(*               open/wall cells with any open start and open end;         *)
(*   SpecConfig  the prompts and corrections of main up to grid_init.      *)
(***************************************************************************)
EXTENDS Integers, Sequences, FiniteSets, TLC

VARIABLES
    pc,           \* position of the program
    rows, cols,   \* g->rows, g->cols
    cells,        \* g->cells : index -> 0 (open) | 1 (wall)
    marks,        \* g->marks : index -> bitset of M_VISIT, M_FRONT, M_PATH
    stack,        \* generate_maze: stack[0..top-1] as a sequence of <<r,c>>
    vis,          \* generate_maze: vis[] ; <<>> when not allocated
    gen_pushed,   \* history: index -> pushes of the cell on generate_maze's stack
    algo_choice,  \* main: algo_choice
    sr, sc, er, ec,   \* start and end coordinates handed to the solver
    parent,       \* solve_*: parent[] ; <<>> when not allocated
    q,            \* solve_bfs: Queue  [data, head, tail, cap]
    st,           \* solve_dfs: Stack  [data (live part, top = Len), cap]
    cur,          \* reconstruct_and_mark: cur
    walk,         \* history: the cells marked by reconstruct_and_mark, in order
    hist,         \* history of the search loop: [pushed, popped : index ->
                  \* count, frames : draw_grid calls]
    m_rows, m_cols,   \* main: the locals rows, cols before grid_init
    delay,        \* main: delay
    typed_rows, typed_cols   \* history: what the size prompts returned

vars == <<pc, rows, cols, cells, marks, stack, vis, gen_pushed, algo_choice,
          sr, sc, er, ec, parent, q, st, cur, walk, hist, m_rows, m_cols, delay,
          typed_rows, typed_cols>>

gridVars == <<rows, cols, cells, marks>>
genVars == <<stack, vis, gen_pushed>>
endVars == <<sr, sc, er, ec>>
solveVars == <<parent, q, st, cur, walk, hist>>
cfgVars == <<m_rows, m_cols, delay, typed_rows, typed_cols>>

----------------------------------------------------------------------------
(* Bounds of the model *)

\* Spec: rows = 2*h+1 for h in 1..MaxHalfRows, cols likewise
MaxHalfRows == 3
MaxHalfCols == 2
\* SpecSolve: every grid shape with rows <= MaxSolveRows, cols <= MaxSolveCols
\* and rows*cols <= MaxCells
MaxSolveRows == 3
MaxSolveCols == 3
MaxCells == 9
\* SpecConfig: the integers typed at the size prompts are -3..MaxDimInput
MaxDimInput == 14

----------------------------------------------------------------------------
(* Marks and the Grid accessors *)

M_NONE == 0
M_VISIT == 1
M_FRONT == 2
M_PATH == 4

\* bit b (a power of two) of the bitset m
HasBit(m, b) == (m \div b) % 2 = 1
BitOr(m, b) == IF HasBit(m, b) THEN m ELSE m + b
BitAndNot(m, b) == IF HasBit(m, b) THEN m - b ELSE m

Idx(r, c) == r * cols + c
RowOf(i) == i \div cols
ColOf(i) == i % cols
AllIdx == 0 .. (rows * cols - 1)

grid_get(cs, r, c) == cs[Idx(r, c)]
grid_set(cs, r, c, v) == [cs EXCEPT ![Idx(r, c)] = v]
mark_get(ms, r, c) == ms[Idx(r, c)]
mark_or(ms, r, c, v) == [ms EXCEPT ![Idx(r, c)] = BitOr(@, v)]
mark_andnot(ms, r, c, v) == [ms EXCEPT ![Idx(r, c)] = BitAndNot(@, v)]
ClearMarks == [i \in AllIdx |-> M_NONE]

is_inside(r, c) == r >= 0 /\ r < rows /\ c >= 0 /\ c < cols

nbrs4 == << <<-1, 0>>, <<1, 0>>, <<0, -1>>, <<0, 1>> >>
dirs == << <<-2, 0>>, <<2, 0>>, <<0, -2>>, <<0, 2>> >>

NoArray == << >>
NoQueue == [data |-> << >>, head |-> 0, tail |-> 0, cap |-> 0]
NoStack == [data |-> << >>, cap |-> 0]

----------------------------------------------------------------------------
(* generate_maze *)

\* the history count f with one more push of every cell of seq
CountCells(f, seq) ==
    [i \in DOMAIN f |->
        f[i] + Cardinality({k \in 1 .. Len(seq) : Idx(seq[k][1], seq[k][2]) = i})]

\* lines 130-131: every cell a wall, then every (odd, odd) cell open
GenResetCells_KeepPrior(cs) ==
    [i \in AllIdx |->
        IF RowOf(i) % 2 = 1 /\ ColOf(i) % 2 = 1 THEN 0 ELSE cs[i]]

GenResetCells(cs) ==
    [i \in AllIdx |->
        IF RowOf(i) % 2 = 1 /\ ColOf(i) % 2 = 1 THEN 0 ELSE 1]

\* line 133
maxcells_LessOne == (rows \div 2) * (cols \div 2) - 1

maxcells == (rows \div 2) * (cols \div 2)

\* line 149: the room (nr, nc) is strictly inside the border
GenInside_RowsOnly(nr, nc) == nr > 0 /\ nr < rows - 1

GenInside(nr, nc) == nr > 0 /\ nr < rows - 1 /\ nc > 0 /\ nc < cols - 1

\* lines 147-152: the directions i (0..3) whose room is strictly inside and
\* not yet visited, in increasing order of i
GenChoices(r, c, v) ==
    SelectSeq(<<0, 1, 2, 3>>,
        LAMBDA i :
            LET nr == r + dirs[i + 1][1]
                nc == c + dirs[i + 1][2]
            IN  /\ GenInside(nr, nc)
                /\ v[Idx(nr, nc)] = 0)

\* line 157: the wall cell between (r,c) and its neighbour in direction pick
GenCarve_Skip(cs, r, c, pick) == cs

GenCarve(cs, r, c, pick) ==
    grid_set(cs, r + dirs[pick + 1][1] \div 2, c + dirs[pick + 1][2] \div 2, 0)

\* lines 134-135, 138: vis[] is zeroed and the room (1,1) marked
GenInitVis_Empty == [i \in AllIdx |-> 0]

GenInitVis == [i \in AllIdx |-> IF i = Idx(1, 1) THEN 1 ELSE 0]

\* lines 129-140
GenerateStart ==
    /\ pc = "generate"
    /\ cells' = GenResetCells(cells)
    /\ stack' = << <<1, 1>> >>
    /\ vis' = GenInitVis
    /\ gen_pushed' = [i \in AllIdx |-> IF i = Idx(1, 1) THEN 1 ELSE 0]
    /\ pc' = "gen_loop"
    /\ UNCHANGED <<rows, cols, marks, algo_choice, endVars, solveVars, cfgVars>>

\* lines 142-165, one iteration; rnd is rand()
GenerateStep ==
    /\ pc = "gen_loop"
    /\ Len(stack) > 0
    /\ LET r == stack[Len(stack)][1]
           c == stack[Len(stack)][2]
           choices == GenChoices(r, c, vis)
           ch == Len(choices)
       IN  IF ch > 0
           THEN \E rnd \in 0 .. (ch - 1) :
                    LET pick == choices[(rnd % ch) + 1]
                        nr == r + dirs[pick + 1][1]
                        nc == c + dirs[pick + 1][2]
                    IN  /\ cells' = GenCarve(cells, r, c, pick)
                        /\ vis' = [vis EXCEPT ![Idx(nr, nc)] = 1]
                        /\ stack' = Append(stack, <<nr, nc>>)
                        /\ gen_pushed' = [gen_pushed EXCEPT ![Idx(nr, nc)] = @ + 1]
           ELSE /\ stack' = SubSeq(stack, 1, Len(stack) - 1)
                /\ UNCHANGED <<cells, vis, gen_pushed>>
    /\ pc' = "gen_loop"
    /\ UNCHANGED <<rows, cols, marks, algo_choice, endVars, solveVars, cfgVars>>

\* lines 142, 166-167: the loop has ended; stack and vis are freed
GenerateReturn ==
    /\ pc = "gen_loop"
    /\ Len(stack) = 0
    /\ stack' = NoArray
    /\ vis' = NoArray
    /\ UNCHANGED gen_pushed
    /\ pc' = "generated"
    /\ UNCHANGED <<gridVars, algo_choice, endVars, solveVars, cfgVars>>

----------------------------------------------------------------------------
(* Stack and Queue *)

\* malloc'ed, not yet written slot of a Queue
Junk == <<-1, -1>>

stack_create(cap) == [data |-> << >>, cap |-> cap]

\* lines 208-210: the push is dropped when the stack is full
stack_push(s, v) ==
    IF Len(s.data) < s.cap THEN [s EXCEPT !.data = Append(@, v)] ELSE s

\* lines 211-213: the popped value and the stack left
stack_pop(s) ==
    [v |-> s.data[Len(s.data)],
     s |-> [s EXCEPT !.data = SubSeq(@, 1, Len(@) - 1)]]

stack_empty(s) == Len(s.data) = 0

queue_create(cap) ==
    [data |-> [i \in 1 .. cap |-> Junk], head |-> 0, tail |-> 0, cap |-> cap]

\* lines 233-236 (slot i of the C array is data[i+1])
queue_push(qq, v) ==
    [qq EXCEPT !.data[qq.tail + 1] = v,
               !.tail = IF qq.tail + 1 >= qq.cap THEN 0 ELSE qq.tail + 1]

\* lines 237-241: the popped value and the queue left
queue_pop_Lifo(qq) ==
    [v |-> qq.data[qq.tail],
     q |-> [qq EXCEPT !.tail = qq.tail - 1]]

queue_pop(qq) ==
    [v |-> qq.data[qq.head + 1],
     q |-> [qq EXCEPT !.head = IF qq.head + 1 >= qq.cap THEN 0 ELSE qq.head + 1]]

queue_empty(qq) == qq.head = qq.tail

----------------------------------------------------------------------------
(* shuffle_ints *)

Swap(arr, i, j) == [arr EXCEPT ![i + 1] = arr[j + 1], ![j + 1] = arr[i + 1]]

\* lines 114-121: rnd[i] is the value rand() returns in iteration i
RECURSIVE ShuffleFrom(_, _, _)
ShuffleFrom(arr, i, rnd) ==
    IF i > 0
    THEN ShuffleFrom(Swap(arr, i, rnd[i] % (i + 1)), i - 1, rnd)
    ELSE arr

shuffle_ints(arr, n, rnd) == ShuffleFrom(arr, n - 1, rnd)

----------------------------------------------------------------------------
(* reconstruct_and_mark *)

\* line 259
ReconNoPath_Never(par, idx) == FALSE

ReconNoPath(par, idx) == par[idx] = -1

\* line 261
ReconWalking_StopAtRoot(cu) == cu # -2 /\ cu # -1 /\ parent[cu] # -2

ReconWalking(cu) == cu # -2 /\ cu # -1

\* lines 258-260
ReconstructStart ==
    /\ pc = "reconstruct"
    /\ LET idx == er * cols + ec
       IN  IF ReconNoPath(parent, idx)
           THEN /\ pc' = "solved"
                /\ UNCHANGED cur
           ELSE /\ cur' = idx
                /\ pc' = "recon_loop"
    /\ UNCHANGED <<gridVars, genVars, algo_choice, endVars, parent, q, st, walk,
                   hist, cfgVars>>

\* lines 261-267, one iteration
ReconstructStep ==
    /\ pc = "recon_loop"
    /\ ReconWalking(cur)
    /\ marks' = mark_or(marks, cur \div cols, cur % cols, M_PATH)
    /\ cur' = parent[cur]
    /\ walk' = Append(walk, cur)
    /\ pc' = "recon_loop"
    /\ UNCHANGED <<rows, cols, cells, genVars, algo_choice, endVars, parent, q, st,
                   hist, cfgVars>>

\* line 261 false: the walk has ended
ReconstructReturn ==
    /\ pc = "recon_loop"
    /\ ~ReconWalking(cur)
    /\ pc' = "solved"
    /\ UNCHANGED <<gridVars, genVars, algo_choice, endVars, solveVars, cfgVars>>

----------------------------------------------------------------------------
(* solve_bfs *)

\* lines 274, 281 / 314, 321
InitParent == [i \in AllIdx |-> IF i = Idx(sr, sc) THEN -2 ELSE -1]

\* lines 287-292 / 327-333: the popped cell loses M_FRONT and gains M_VISIT
PopMarks_KeepFront(ms, r, c) ==
    IF ~HasBit(ms[Idx(r, c)], M_VISIT) THEN mark_or(ms, r, c, M_VISIT) ELSE ms

PopMarks(ms, r, c) ==
    LET m1 == mark_andnot(ms, r, c, M_FRONT)
    IN  IF ~HasBit(m1[Idx(r, c)], M_VISIT) THEN mark_or(m1, r, c, M_VISIT) ELSE m1

\* lines 288-290 / 329-331: the draw_grid calls of one pop
PopFrames_Always(ms, r, c) == 1

PopFrames(ms, r, c) ==
    IF ~HasBit(mark_andnot(ms, r, c, M_FRONT)[Idx(r, c)], M_VISIT) THEN 1 ELSE 0

\* the elements that the pushes of one iteration added to the container
StackAdded(s0, s1) == SubSeq(s1.data, Len(s0.data) + 1, Len(s1.data))

QueueAdded(q0, q1) ==
    [j \in 1 .. ((q1.tail - q0.tail + q0.cap) % q0.cap) |->
        q1.data[((q0.tail + j - 1) % q0.cap) + 1]]

\* line 293 / 334
IsEnd_Never(r, c) == FALSE

IsEnd(r, c) == r = er /\ c = ec

\* lines 295-302 for direction k; s = [parent, q, marks]
BfsNeighbour_Overwrite(s, r, c, k) ==
    LET nr == r + nbrs4[k + 1][1]
        nc == c + nbrs4[k + 1][2]
    IN  IF /\ is_inside(nr, nc)
           /\ grid_get(cells, nr, nc) = 0
           /\ ~HasBit(s.marks[Idx(nr, nc)], M_VISIT)
        THEN [parent |-> [s.parent EXCEPT ![Idx(nr, nc)] = Idx(r, c)],
              q |-> queue_push(s.q, <<nr, nc>>),
              marks |-> mark_or(s.marks, nr, nc, M_FRONT)]
        ELSE s

BfsNeighbour(s, r, c, k) ==
    LET nr == r + nbrs4[k + 1][1]
        nc == c + nbrs4[k + 1][2]
    IN  IF /\ is_inside(nr, nc)
           /\ grid_get(cells, nr, nc) = 0
           /\ s.parent[Idx(nr, nc)] = -1
        THEN [parent |-> [s.parent EXCEPT ![Idx(nr, nc)] = Idx(r, c)],
              q |-> queue_push(s.q, <<nr, nc>>),
              marks |-> mark_or(s.marks, nr, nc, M_FRONT)]
        ELSE s

\* lines 294-303: k = 0, 1, 2, 3 in this order
BfsExpand(s, r, c) ==
    BfsNeighbour(BfsNeighbour(BfsNeighbour(BfsNeighbour(s, r, c, 0), r, c, 1),
                              r, c, 2), r, c, 3)

\* main line 399 and solve_bfs lines 272-282
BfsStart ==
    /\ pc = "solve"
    /\ algo_choice # 1
    /\ parent' = InitParent
    /\ marks' = mark_or(ClearMarks, sr, sc, M_FRONT)
    /\ q' = queue_push(queue_create(rows * cols + 5), <<sr, sc>>)
    /\ walk' = << >>
    /\ hist' = [pushed |-> [i \in AllIdx |-> IF i = Idx(sr, sc) THEN 1 ELSE 0],
                popped |-> [i \in AllIdx |-> 0],
                frames |-> 0]
    /\ pc' = "bfs_loop"
    /\ UNCHANGED <<rows, cols, cells, genVars, algo_choice, endVars, st, cur,
                   cfgVars>>

\* lines 284-305: the loop test and, when the queue is not empty, one iteration
BfsStep ==
    /\ pc = "bfs_loop"
    /\ IF queue_empty(q)
       THEN /\ pc' = "reconstruct"
            /\ UNCHANGED <<parent, q, marks, hist>>
       ELSE LET p == queue_pop(q)
                r == p.v[1]
                c == p.v[2]
                m2 == PopMarks(marks, r, c)
                h2 == [hist EXCEPT !.popped[Idx(r, c)] = @ + 1,
                                   !.frames = @ + PopFrames(marks, r, c)]
            IN  IF IsEnd(r, c)
                THEN /\ marks' = m2
                     /\ q' = p.q
                     /\ hist' = h2
                     /\ UNCHANGED parent
                     /\ pc' = "reconstruct"
                ELSE \E s \in {BfsExpand([parent |-> parent, q |-> p.q,
                                           marks |-> m2], r, c)} :
                       \E added \in {QueueAdded(p.q, s.q)} :
                         /\ parent' = s.parent
                         /\ q' = s.q
                         /\ marks' = s.marks
                         /\ hist' = [h2 EXCEPT !.pushed = CountCells(@, added)]
                         /\ pc' = "bfs_loop"
    /\ UNCHANGED <<rows, cols, cells, genVars, algo_choice, endVars, st, cur, walk,
                   cfgVars>>

----------------------------------------------------------------------------
(* solve_dfs *)

\* lines 340-348 for direction k; s = [parent, st, marks]
DfsNeighbour_WrongParent(s, r, c, k) ==
    LET nr == r + nbrs4[k + 1][1]
        nc == c + nbrs4[k + 1][2]
    IN  IF /\ is_inside(nr, nc)
           /\ grid_get(cells, nr, nc) = 0
           /\ s.marks[Idx(nr, nc)] = M_NONE
        THEN [parent |-> IF s.parent[Idx(nr, nc)] = -1
                         THEN [s.parent EXCEPT ![Idx(nr, nc)] = Idx(r, nc)]
                         ELSE s.parent,
              st |-> stack_push(s.st, <<nr, nc>>),
              marks |-> mark_or(s.marks, nr, nc, M_FRONT)]
        ELSE s

DfsNeighbour_Overwrite(s, r, c, k) ==
    LET nr == r + nbrs4[k + 1][1]
        nc == c + nbrs4[k + 1][2]
    IN  IF /\ is_inside(nr, nc)
           /\ grid_get(cells, nr, nc) = 0
        THEN [parent |-> [s.parent EXCEPT ![Idx(nr, nc)] = Idx(r, c)],
              st |-> stack_push(s.st, <<nr, nc>>),
              marks |-> mark_or(s.marks, nr, nc, M_FRONT)]
        ELSE s

DfsNeighbour_NotVisited(s, r, c, k) ==
    LET nr == r + nbrs4[k + 1][1]
        nc == c + nbrs4[k + 1][2]
    IN  IF /\ is_inside(nr, nc)
           /\ grid_get(cells, nr, nc) = 0
           /\ ~HasBit(s.marks[Idx(nr, nc)], M_VISIT)
        THEN [parent |-> IF s.parent[Idx(nr, nc)] = -1
                         THEN [s.parent EXCEPT ![Idx(nr, nc)] = Idx(r, c)]
                         ELSE s.parent,
              st |-> stack_push(s.st, <<nr, nc>>),
              marks |-> mark_or(s.marks, nr, nc, M_FRONT)]
        ELSE s

DfsNeighbour(s, r, c, k) ==
    LET nr == r + nbrs4[k + 1][1]
        nc == c + nbrs4[k + 1][2]
    IN  IF /\ is_inside(nr, nc)
           /\ grid_get(cells, nr, nc) = 0
           /\ s.marks[Idx(nr, nc)] = M_NONE
        THEN [parent |-> IF s.parent[Idx(nr, nc)] = -1
                         THEN [s.parent EXCEPT ![Idx(nr, nc)] = Idx(r, c)]
                         ELSE s.parent,
              st |-> stack_push(s.st, <<nr, nc>>),
              marks |-> mark_or(s.marks, nr, nc, M_FRONT)]
        ELSE s

\* lines 338-349: i = 0..3, k = order[i]
DfsExpand(s, r, c, order) ==
    DfsNeighbour(DfsNeighbour(DfsNeighbour(DfsNeighbour(s, r, c, order[1]),
                                           r, c, order[2]),
                              r, c, order[3]), r, c, order[4])

\* main line 398 and solve_dfs lines 312-322
DfsStart ==
    /\ pc = "solve"
    /\ algo_choice = 1
    /\ parent' = InitParent
    /\ marks' = mark_or(ClearMarks, sr, sc, M_FRONT)
    /\ st' = stack_push(stack_create(rows * cols + 5), <<sr, sc>>)
    /\ walk' = << >>
    /\ hist' = [pushed |-> [i \in AllIdx |-> IF i = Idx(sr, sc) THEN 1 ELSE 0],
                popped |-> [i \in AllIdx |-> 0],
                frames |-> 0]
    /\ pc' = "dfs_loop"
    /\ UNCHANGED <<rows, cols, cells, genVars, algo_choice, endVars, q, cur,
                   cfgVars>>

\* lines 324-352: the loop test and, when the stack is not empty, one
\* iteration; rnd[i] is rand() in iteration i of the shuffle
DfsStep ==
    /\ pc = "dfs_loop"
    /\ IF stack_empty(st)
       THEN /\ pc' = "reconstruct"
            /\ UNCHANGED <<parent, st, marks, hist>>
       ELSE LET p == stack_pop(st)
                r == p.v[1]
                c == p.v[2]
                m2 == PopMarks(marks, r, c)
                h2 == [hist EXCEPT !.popped[Idx(r, c)] = @ + 1,
                                   !.frames = @ + PopFrames(marks, r, c)]
            IN  IF IsEnd(r, c)
                THEN /\ marks' = m2
                     /\ st' = p.s
                     /\ hist' = h2
                     /\ UNCHANGED parent
                     /\ pc' = "reconstruct"
                ELSE \E rnd \in [1 .. 3 -> 0 .. 3] :
                         /\ \A i \in 1 .. 3 : rnd[i] <= i
                         /\ \E s \in {DfsExpand([parent |-> parent, st |-> p.s,
                                                  marks |-> m2], r, c,
                                                 shuffle_ints(<<0, 1, 2, 3>>, 4,
                                                              rnd))} :
                              \E added \in {StackAdded(p.s, s.st)} :
                                /\ parent' = s.parent
                                /\ st' = s.st
                                /\ marks' = s.marks
                                /\ hist' = [h2 EXCEPT !.pushed =
                                               CountCells(@, added)]
                                /\ pc' = "dfs_loop"
    /\ UNCHANGED <<rows, cols, cells, genVars, algo_choice, endVars, q, cur, walk,
                   cfgVars>>

\* lines 306-307 / 353-354: the frontier container and parent are freed
SolveReturn ==
    /\ pc = "solved"
    /\ parent' = NoArray
    /\ q' = NoQueue
    /\ st' = NoStack
    /\ pc' = "finished"
    /\ UNCHANGED <<gridVars, genVars, algo_choice, endVars, cur, walk, hist,
                   cfgVars>>

----------------------------------------------------------------------------
(* main *)

\* what is typed at a prompt: an integer x (ok), or a line that holds none
Typed(S) == [ok : {TRUE}, x : S] \cup [ok : {FALSE}, x : {0}]

\* lines 358-365
get_int_with_default(def, input) == IF input.ok THEN input.x ELSE def

\* lines 377-380
MinDim == 11

CorrectDim_KeepEven(x) == IF x < MinDim THEN MinDim ELSE x

CorrectDim(x) ==
    LET a == IF x < MinDim THEN MinDim ELSE x
    IN  IF a % 2 = 0 THEN a + 1 ELSE a

\* the defaults of the four prompts, lines 375, 376, 382, 383
DefaultCols == 31
DefaultRows == 21
DefaultAlgo == 2
DefaultDelay == 40

\* the range the delay prompt announces, line 383
MaxDelay == 200

DimInputs == Typed(-3 .. MaxDimInput)
AlgoInputs == Typed(0 .. 3)
DelayInputs == Typed({-1, 0, DefaultDelay, MaxDelay, MaxDelay + 1, 2147483647})

\* line 375
AskCols ==
    /\ pc = "ask_cols"
    /\ \E input \in DimInputs : m_cols' = get_int_with_default(DefaultCols, input)
    /\ typed_cols' = m_cols'
    /\ pc' = "ask_rows"
    /\ UNCHANGED <<gridVars, genVars, algo_choice, endVars, solveVars, m_rows, delay,
                   typed_rows>>

\* line 376
AskRows ==
    /\ pc = "ask_rows"
    /\ \E input \in DimInputs : m_rows' = get_int_with_default(DefaultRows, input)
    /\ typed_rows' = m_rows'
    /\ pc' = "correct"
    /\ UNCHANGED <<gridVars, genVars, algo_choice, endVars, solveVars, m_cols, delay,
                   typed_cols>>

\* lines 377-380
CorrectDims ==
    /\ pc = "correct"
    /\ m_cols' = CorrectDim(m_cols)
    /\ m_rows' = CorrectDim(m_rows)
    /\ pc' = "ask_algo"
    /\ UNCHANGED <<gridVars, genVars, algo_choice, endVars, solveVars, delay,
                   typed_rows, typed_cols>>

\* line 382
AskAlgo ==
    /\ pc = "ask_algo"
    /\ \E input \in AlgoInputs :
           algo_choice' = get_int_with_default(DefaultAlgo, input)
    /\ pc' = "ask_delay"
    /\ UNCHANGED <<gridVars, genVars, endVars, solveVars, cfgVars>>

\* line 383: the value read is kept as it is
AskDelay ==
    /\ pc = "ask_delay"
    /\ \E input \in DelayInputs : delay' = get_int_with_default(DefaultDelay, input)
    /\ pc' = "grid_init"
    /\ UNCHANGED <<gridVars, genVars, algo_choice, endVars, solveVars, m_rows, m_cols,
                   typed_rows, typed_cols>>

\* lines 385-387 and grid_init, lines 95-106
GridInit ==
    /\ pc = "grid_init"
    /\ rows' = m_rows
    /\ cols' = m_cols
    /\ cells' = [i \in 0 .. (m_rows * m_cols - 1) |-> 1]
    /\ marks' = [i \in 0 .. (m_rows * m_cols - 1) |-> M_NONE]
    /\ sr' = 1
    /\ sc' = 1
    /\ er' = m_rows - 2
    /\ ec' = m_cols - 2
    /\ pc' = "configured"
    /\ UNCHANGED <<genVars, algo_choice, solveVars, cfgVars>>

\* lines 391-396: the maze is drawn and Enter is awaited
MainPressEnter ==
    /\ pc = "generated"
    /\ pc' = "solve"
    /\ UNCHANGED <<gridVars, genVars, algo_choice, endVars, solveVars, cfgVars>>

\* lines 401-412: c is the key typed after the solve
MainOption ==
    /\ pc = "finished"
    /\ \E c \in {"r", "a", "q"} :
           /\ pc' = IF c = "q" THEN "exit" ELSE "generate"
           /\ algo_choice' = IF c = "a"
                             THEN (IF algo_choice = 1 THEN 2 ELSE 1)
                             ELSE algo_choice
    /\ UNCHANGED <<gridVars, genVars, endVars, solveVars, cfgVars>>

----------------------------------------------------------------------------
(* Specifications *)

NoLocals ==
    /\ stack = NoArray
    /\ vis = NoArray
    /\ parent = NoArray
    /\ q = NoQueue
    /\ st = NoStack
    /\ cur = -1
    /\ walk = << >>
    /\ gen_pushed = NoArray
    /\ hist = [pushed |-> NoArray, popped |-> NoArray, frames |-> 0]

\* main after grid_init, with the Grid's cells in any state a previous use of
\* the Grid may have left: all wall (grid_init) or all open
Init ==
    /\ pc = "generate"
    /\ \E h \in 1 .. MaxHalfRows : rows = 2 * h + 1
    /\ \E h \in 1 .. MaxHalfCols : cols = 2 * h + 1
    /\ \E v \in {0, 1} : cells = [i \in AllIdx |-> v]
    /\ marks = ClearMarks
    /\ algo_choice \in {1, 2}
    /\ sr = 1
    /\ sc = 1
    /\ er = rows - 2
    /\ ec = cols - 2
    /\ m_rows = rows
    /\ m_cols = cols
    /\ typed_rows = rows
    /\ typed_cols = cols
    /\ delay = DefaultDelay
    /\ NoLocals

SolveActions ==
    \/ BfsStart
    \/ BfsStep
    \/ DfsStart
    \/ DfsStep
    \/ ReconstructStart
    \/ ReconstructStep
    \/ ReconstructReturn
    \/ SolveReturn

Next ==
    \/ GenerateStart
    \/ GenerateStep
    \/ GenerateReturn
    \/ MainPressEnter
    \/ SolveActions
    \/ MainOption

Spec == Init /\ [][Next]_vars

\* the loops of generate_maze, solve_* and reconstruct_and_mark run on their
\* own; only the two key presses of main wait for the user
FairSpec == Spec /\ WF_vars(GenerateStart \/ GenerateStep \/ GenerateReturn)
                 /\ WF_vars(MainPressEnter)
                 /\ WF_vars(SolveActions)

\* solve_bfs / solve_dfs called on any grid of open and wall cells
InitSolve ==
    /\ pc = "solve"
    /\ rows \in 1 .. MaxSolveRows
    /\ cols \in 1 .. MaxSolveCols
    /\ rows * cols <= MaxCells
    /\ cells \in [AllIdx -> {0, 1}]
    /\ marks = ClearMarks
    /\ algo_choice \in {1, 2}
    /\ sr \in 0 .. (rows - 1)
    /\ sc \in 0 .. (cols - 1)
    /\ cells[Idx(sr, sc)] = 0
    /\ er \in 0 .. (rows - 1)
    /\ ec \in 0 .. (cols - 1)
    /\ cells[Idx(er, ec)] = 0
    /\ m_rows = rows
    /\ m_cols = cols
    /\ typed_rows = rows
    /\ typed_cols = cols
    /\ delay = DefaultDelay
    /\ NoLocals

NextSolve == SolveActions

SpecSolve == InitSolve /\ [][NextSolve]_vars

FairSpecSolve == SpecSolve /\ WF_vars(NextSolve)

\* main from its first prompt to the constructed Grid
InitConfig ==
    /\ pc = "ask_cols"
    /\ rows = 0
    /\ cols = 0
    /\ cells = NoArray
    /\ marks = NoArray
    /\ algo_choice = 0
    /\ sr = 0
    /\ sc = 0
    /\ er = 0
    /\ ec = 0
    /\ m_rows = 0
    /\ m_cols = 0
    /\ typed_rows = 0
    /\ typed_cols = 0
    /\ delay = 0
    /\ NoLocals

NextConfig ==
    \/ AskCols
    \/ AskRows
    \/ CorrectDims
    \/ AskAlgo
    \/ AskDelay
    \/ GridInit

SpecConfig == InitConfig /\ [][NextConfig]_vars

----------------------------------------------------------------------------
(* The graph of open cells under 4-adjacency, for stating the claims *)

Abs(x) == IF x < 0 THEN -x ELSE x
Adjacent(i, j) ==
    Abs(RowOf(i) - RowOf(j)) + Abs(ColOf(i) - ColOf(j)) = 1
OpenCells == {i \in AllIdx : cells[i] = 0}
Rooms == {i \in AllIdx : RowOf(i) % 2 = 1 /\ ColOf(i) % 2 = 1}
OpenEdges == {e \in OpenCells \X OpenCells : e[1] < e[2] /\ Adjacent(e[1], e[2])}
OpenNbrs(i) ==
    {j \in {i - cols, i + cols, i - 1, i + 1} :
        j \in AllIdx /\ Adjacent(i, j) /\ cells[j] = 0}

\* the open cells reachable from the set F, given that Seen are reached
RECURSIVE ReachFrom(_, _)
ReachFrom(F, Seen) ==
    LET N == UNION {OpenNbrs(i) : i \in F} \ Seen
    IN  IF N = {} THEN Seen ELSE ReachFrom(N, Seen \cup N)

Reach(i) == ReachFrom({i}, {i})

\* minimum number of steps over open cells from the layer F (at distance d)
\* to cell t; -1 when there is none
RECURSIVE DistFrom(_, _, _, _)
DistFrom(F, Seen, t, d) ==
    IF t \in F THEN d
    ELSE LET N == UNION {OpenNbrs(i) : i \in F} \ Seen
         IN  IF N = {} THEN -1 ELSE DistFrom(N, Seen \cup N, t, d + 1)

Dist(s, t) == DistFrom({s}, {s}, t, 0)

\* number of simple paths over open cells from a to b that avoid Seen
RECURSIVE CountPaths(_, _, _)
RECURSIVE SumPaths(_, _, _)
CountPaths(a, b, Seen) ==
    IF a = b THEN 1 ELSE SumPaths(OpenNbrs(a) \ Seen, b, Seen)
SumPaths(N, b, Seen) ==
    IF N = {} THEN 0
    ELSE LET n == CHOOSE x \in N : TRUE
         IN  CountPaths(n, b, Seen \cup {n}) + SumPaths(N \ {n}, b, Seen)

StartIdx == Idx(sr, sc)
EndIdx == Idx(er, ec)
PathCells == {i \in DOMAIN marks : HasBit(marks[i], M_PATH)}
VisitedCells == {i \in DOMAIN marks : HasBit(marks[i], M_VISIT)}
FrontCells == {i \in DOMAIN marks : HasBit(marks[i], M_FRONT)}

----------------------------------------------------------------------------
(* C1 *)

\* C1: when generate_maze returns, every room cell is open, the open cells are
\* connected and acyclic under 4-adjacency, the carved passage cells number
\* one less than the rooms, so that any two open cells are joined by exactly
\* one simple path (counted here from the first room to every open cell).
C1_PerfectMaze ==
    pc = "generated" =>
        /\ Rooms \subseteq OpenCells
        /\ Reach(Idx(1, 1)) = OpenCells
        /\ Cardinality(OpenEdges) = Cardinality(OpenCells) - 1
        /\ Cardinality(OpenCells \ Rooms) = Cardinality(Rooms) - 1
        /\ \A b \in OpenCells : CountPaths(Idx(1, 1), b, {Idx(1, 1)}) = 1

\* a generated maze with a junction: the generator backtracked and branched
C1_Witness ==
    /\ pc = "generated"
    /\ \E i \in Rooms : Cardinality(OpenNbrs(i)) >= 3

----------------------------------------------------------------------------
(* C2 - C7: the solvers on any grid of open and wall cells (SpecSolve) *)

Solving == pc \in {"bfs_loop", "dfs_loop"}
UsesDfs == algo_choice = 1
FrontierEmpty == IF UsesDfs THEN stack_empty(st) ELSE queue_empty(q)
WalkSet == {walk[k] : k \in 1 .. Len(walk)}

\* cells on the parent chain from i to the root sentinel, i included; -1 when
\* the chain ends at an unset parent or is longer than fuel
RECURSIVE ChainLen(_, _, _)
ChainLen(par, i, fuel) ==
    IF i = -2 THEN 0
    ELSE IF i = -1 \/ fuel = 0 THEN -1
    ELSE LET n == ChainLen(par, par[i], fuel - 1)
         IN  IF n < 0 THEN -1 ELSE n + 1

\* C2: within a solve, a parent that has left -1 keeps its value in every
\* later step, and parent[start] stays -2.
C2_ParentAssignedOnce ==
    [][(parent # NoArray /\ parent' # NoArray) =>
          /\ \A i \in DOMAIN parent : parent[i] # -1 => parent'[i] = parent[i]
          /\ parent'[StartIdx] = -2]_vars

\* a discovered, not yet popped cell X next to two cells that were expanded
C2_Witness ==
    /\ Solving
    /\ \E x \in AllIdx :
          /\ parent[x] >= 0
          /\ x \notin VisitedCells
          /\ Cardinality({a \in OpenNbrs(x) \cap VisitedCells : a # EndIdx}) >= 2

\* C3: after solve_bfs with end reachable, the marked path has as many edges
\* as the shortest route over open cells from start to end.
C3_BfsShortest ==
    (pc = "solved" /\ ~UsesDfs /\ Dist(StartIdx, EndIdx) >= 0) =>
        /\ Len(walk) - 1 = Dist(StartIdx, EndIdx)
        /\ Cardinality(PathCells) - 1 = Dist(StartIdx, EndIdx)
        /\ PathCells = WalkSet

\* BFS finished on a grid that also offers a longer simple route to end
C3_Witness ==
    /\ pc = "solved"
    /\ ~UsesDfs
    /\ Dist(StartIdx, EndIdx) >= 2
    /\ CountPaths(StartIdx, EndIdx, {StartIdx}) >= 2

\* C4: the path marked by the walk after solve_dfs, if any, begins at end,
\* runs over 4-adjacent open cells, repeats no cell and finishes at start.
C4_DfsSimpleWalk ==
    (pc \in {"recon_loop", "solved"} /\ UsesDfs /\ walk # << >>) =>
        /\ walk[1] = EndIdx
        /\ pc = "solved" => walk[Len(walk)] = StartIdx
        /\ \A k \in 1 .. (Len(walk) - 1) : Adjacent(walk[k], walk[k + 1])
        /\ \A k \in 1 .. Len(walk) : cells[walk[k]] = 0
        /\ \A j \in 1 .. Len(walk) : \A k \in 1 .. Len(walk) :
               j # k => walk[j] # walk[k]
        /\ PathCells = WalkSet

\* DFS marked a path longer than the shortest one
C4_Witness ==
    /\ pc = "solved"
    /\ UsesDfs
    /\ Len(walk) - 1 > Dist(StartIdx, EndIdx)
    /\ Dist(StartIdx, EndIdx) >= 1

\* number of entries the frontier container holds
FrontierSize ==
    IF UsesDfs THEN Len(st.data) ELSE (q.tail - q.head + q.cap) % q.cap

\* decreases with every iteration of the search loop
Rank == 2 * Cardinality({i \in AllIdx : parent[i] = -1}) + FrontierSize

C5_NoPathMarked ==
    (EndIdx \notin Reach(StartIdx)) =>
        /\ pc = "reconstruct" => FrontierEmpty /\ parent[EndIdx] = -1
        /\ pc # "recon_loop"
        /\ pc = "solved" =>
              /\ FrontierEmpty
              /\ parent[EndIdx] = -1
              /\ PathCells = {}
              /\ walk = << >>
        /\ pc = "finished" => PathCells = {}

\* C5: when end cannot be reached from start, the search loop of either solver
\* runs out (each iteration lowers Rank, which is never negative) and ends
\* with the frontier empty and parent[end] = -1; reconstruct_and_mark then
\* marks no cell as path, and the solve returns as usual.
C5_UnreachableEnd ==
    /\ []C5_NoPathMarked
    /\ [][(Solving /\ EndIdx \notin Reach(StartIdx)) =>
             \/ pc' = pc /\ Rank' < Rank /\ Rank' >= 0
             \/ pc' = "reconstruct" /\ FrontierEmpty]_vars

\* a solve that explored several cells and ended without reaching end
C5_Witness ==
    /\ pc = "solved"
    /\ EndIdx \notin Reach(StartIdx)
    /\ Cardinality(VisitedCells) >= 3

\* C6: the parent links never hold a cycle, and the walk of
\* reconstruct_and_mark ends at the root sentinel within rows*cols iterations.
C6_WalkBounded ==
    /\ Len(walk) <= rows * cols
    /\ parent # NoArray =>
          \A i \in AllIdx :
              parent[i] # -1 => ChainLen(parent, i, rows * cols) >= 1
    /\ pc = "recon_loop" =>
          LET n == ChainLen(parent, cur, rows * cols)
          IN  n >= 0 /\ Len(walk) + n <= rows * cols
    /\ (pc = "solved" /\ parent[EndIdx] # -1) => cur = -2

\* a walk of at least four cells that has arrived at the root sentinel
C6_Witness ==
    /\ pc = "solved"
    /\ cur = -2
    /\ Len(walk) >= 4

\* C7: with start = end the loop stops after the first pop: no other cell gets
\* a parent or a visit, and exactly start is marked as the path.
C7_StartIsEnd ==
    (StartIdx = EndIdx /\ pc \in {"reconstruct", "recon_loop", "solved"}) =>
        /\ \A i \in AllIdx \ {StartIdx} : parent[i] = -1
        /\ VisitedCells = {StartIdx}
        /\ FrontCells = {}
        /\ FrontierEmpty
        /\ pc = "solved" => walk = <<StartIdx>> /\ PathCells = {StartIdx}

\* start = end on a cell that has open neighbours to expand
C7_Witness ==
    /\ pc = "solved"
    /\ StartIdx = EndIdx
    /\ OpenNbrs(StartIdx) # {}
    /\ PathCells = {StartIdx}

----------------------------------------------------------------------------
(* C8, C9: the configuration read by main (SpecConfig) *)

\* C8: the delay handed to solve_bfs / solve_dfs (main's delay, lines 398-399)
\* lies in a non-negative bounded range, the 0..200 of the prompt.
C8_DelayClamped ==
    pc = "configured" => delay >= 0 /\ delay <= MaxDelay

\* what the claim says a typed size becomes
ClaimedDim(x) == IF x < 11 THEN 11 ELSE IF x % 2 = 0 THEN x + 1 ELSE x

\* C9: the Grid is constructed with odd rows and cols of at least 11: a typed
\* value below 11 has become 11 and an even value has been raised by 1.
C9_DimsCorrected ==
    pc = "configured" =>
        /\ rows % 2 = 1 /\ rows >= 11
        /\ cols % 2 = 1 /\ cols >= 11
        /\ rows = ClaimedDim(typed_rows)
        /\ cols = ClaimedDim(typed_cols)
        /\ Cardinality(DOMAIN cells) = rows * cols

\* a negative number of rows and an even number of columns were typed
C9_Witness ==
    /\ pc = "configured"
    /\ typed_rows < 0
    /\ typed_cols % 2 = 0
    /\ typed_cols > 11
    /\ rows = 11
    /\ cols = typed_cols + 1

----------------------------------------------------------------------------
(* C10: solving a generated maze (FairSpec) *)

----------------------------------------------------------------------------
(* C11: the discovery rule of solve_dfs (SpecSolve) *)

\* the cell the next iteration of the search loop pops
NextPop == IF UsesDfs THEN st.data[Len(st.data)] ELSE q.data[q.head + 1]
NextPopIdx == Idx(NextPop[1], NextPop[2])

\* the cells of a sequence of <<r, c>>
CellsOf(seq) == {Idx(seq[k][1], seq[k][2]) : k \in 1 .. Len(seq)}

\* C11: in solve_dfs an open cell has mark none exactly when its parent is
\* unset, and an iteration that pops a cell other than end pushes and marks
\* frontier exactly the open neighbours whose parent is unset, each once, and
\* gives each the popped cell as parent; no other parent changes.
C11_DfsDiscoveryRule ==
    /\ [](pc = "dfs_loop" =>
            \A i \in OpenCells : (marks[i] = M_NONE) <=> (parent[i] = -1))
    /\ [][(pc = "dfs_loop" /\ ~stack_empty(st)) =>
             LET x == NextPopIdx
                 found == IF x = EndIdx THEN {}
                          ELSE {n \in OpenNbrs(x) : parent[n] = -1}
                 rest == SubSeq(st.data, 1, Len(st.data) - 1)
                 pushed == SubSeq(st'.data, Len(rest) + 1, Len(st'.data))
             IN  /\ SubSeq(st'.data, 1, Len(rest)) = rest
                 /\ CellsOf(pushed) = found
                 /\ Len(pushed) = Cardinality(found)
                 /\ \A n \in found :
                        parent'[n] = x /\ HasBit(marks'[n], M_FRONT)
                 /\ \A i \in AllIdx \ found :
                        /\ parent'[i] = parent[i]
                        /\ i # x => marks'[i] = marks[i]]_vars

\* solve_dfs has expanded a cell x that met an open neighbour whose parent was
\* already set by another cell and left it alone
C11_Witness ==
    /\ pc = "dfs_loop"
    /\ \E x \in VisitedCells : \E n \in OpenNbrs(x) :
          /\ x # EndIdx
          /\ HasBit(marks[n], M_FRONT)
          /\ parent[n] >= 0
          /\ parent[n] # x
          /\ parent[x] # n

----------------------------------------------------------------------------
(* C12: marks when a fresh maze is drawn (Spec) *)

\* C12: whenever generate_maze has returned and the new maze is drawn, before
\* the next solve, every cell's mark is none.
C12_MarksClearWhenDrawn ==
    pc = "generated" => \A i \in AllIdx : marks[i] = M_NONE

----------------------------------------------------------------------------
(* C13: pushes, pops and frames of a solve (SpecSolve) *)

InSolve == pc \in {"bfs_loop", "dfs_loop", "reconstruct", "recon_loop", "solved"}

\* C13: in a solve every cell is pushed at most once and popped at most once,
\* the cell about to be popped is not visited, the search loop has called
\* draw_grid once for each visited cell, and reconstruct_and_mark has run one
\* iteration (one draw_grid call) for each cell that carries the path mark.
C13_PushedPoppedOnce ==
    InSolve =>
        /\ \A i \in AllIdx :
              /\ hist.pushed[i] <= 1
              /\ hist.popped[i] <= hist.pushed[i]
              /\ (hist.popped[i] = 1) <=> (i \in VisitedCells)
        /\ (Solving /\ ~FrontierEmpty) => NextPopIdx \notin VisitedCells
        /\ hist.frames = Cardinality(VisitedCells)
        /\ Len(walk) = Cardinality(PathCells)
        /\ WalkSet = PathCells

\* a finished solve with frames drawn in the search and in the reconstruction
\* and a cell that was pushed and never popped
C13_Witness ==
    /\ pc = "solved"
    /\ hist.frames >= 4
    /\ Len(walk) >= 3
    /\ \E i \in AllIdx : hist.pushed[i] = 1 /\ hist.popped[i] = 0

----------------------------------------------------------------------------
(* C14: the loop of generate_maze (Spec) *)

GenTop == Idx(stack[Len(stack)][1], stack[Len(stack)][2])

\* decreases with every iteration of the loop of generate_maze
GenRank == 2 * Cardinality({i \in Rooms : vis[i] = 0}) + Len(stack)

\* C14: the loop of generate_maze ends (each iteration lowers GenRank, which
\* is never negative); when its stack is empty every room cell is visited and
\* was pushed exactly once (no other cell was pushed); and an iteration pushes
\* only a room cell strictly inside the border that was not visited, two
\* columns or two rows away from the cell on top of the stack.
C14_GenerateTerminates ==
    /\ [](pc = "gen_loop" =>
            /\ \A i \in AllIdx : gen_pushed[i] = vis[i]
            /\ Len(stack) = 0 =>
                  \A i \in AllIdx : gen_pushed[i] = IF i \in Rooms THEN 1 ELSE 0)
    /\ [][pc = "gen_loop" =>
             \/ pc' = "gen_loop" /\ GenRank' < GenRank /\ GenRank' >= 0
             \/ pc' = "generated" /\ Len(stack) = 0]_vars
    /\ [][(pc = "gen_loop" /\ pc' = "gen_loop" /\ Len(stack') > Len(stack)) =>
             LET t == GenTop
                 n == GenTop'
             IN  /\ n \in Rooms
                 /\ RowOf(n) > 0 /\ RowOf(n) < rows - 1
                 /\ ColOf(n) > 0 /\ ColOf(n) < cols - 1
                 /\ vis[n] = 0
                 /\ vis'[n] = 1
                 /\ \/ RowOf(n) = RowOf(t) /\ Abs(ColOf(n) - ColOf(t)) = 2
                    \/ ColOf(n) = ColOf(t) /\ Abs(RowOf(n) - RowOf(t)) = 2]_vars

\* the loop of generate_maze is about to end on a grid of six rooms
C14_Witness ==
    /\ pc = "gen_loop"
    /\ Len(stack) = 0
    /\ Cardinality(Rooms) >= 6
    /\ \A i \in Rooms : gen_pushed[i] = 1

----------------------------------------------------------------------------
(* C15: the marks after a solve that reached end (SpecSolve) *)

\* the cells on the parent chain from i up to the root, i included
RECURSIVE ChainSet(_, _, _)
ChainSet(par, i, fuel) ==
    IF i < 0 \/ fuel = 0 THEN {}
    ELSE {i} \cup ChainSet(par, par[i], fuel - 1)

\* C15: after a solve that reached end, the cells with the path mark are
\* exactly the cells of the parent chain from end to start, both included;
\* each of them is open and visited; and during and after a solve no wall
\* cell carries any mark.
C15_PathIsParentChain ==
    /\ InSolve => \A i \in AllIdx : cells[i] = 1 => marks[i] = M_NONE
    /\ (pc = "solved" /\ parent[EndIdx] # -1) =>
          /\ PathCells = ChainSet(parent, EndIdx, rows * cols)
          /\ EndIdx \in PathCells
          /\ StartIdx \in PathCells
          /\ \A i \in PathCells : parent[i] = -2 <=> i = StartIdx
          /\ PathCells \subseteq OpenCells
          /\ PathCells \subseteq VisitedCells

\* a solve that reached end over at least four cells on a grid with a wall,
\* leaving a visited cell off the path
C15_Witness ==
    /\ pc = "solved"
    /\ parent[EndIdx] # -1
    /\ Cardinality(PathCells) >= 4
    /\ VisitedCells \ PathCells # {}
    /\ OpenCells # AllIdx

----------------------------------------------------------------------------
(* C17: frontier marks and the frontier container (SpecSolve) *)

\* the cells held in the queue (slots head .. tail-1 of the ring) or the stack
ContainerSeq ==
    IF UsesDfs THEN st.data
    ELSE [j \in 1 .. ((q.tail - q.head + q.cap) % q.cap) |->
             q.data[((q.head + j - 1) % q.cap) + 1]]

Container == CellsOf(ContainerSeq)

\* C17: at the head of every iteration of the search loop a cell has the
\* frontier mark exactly when the container holds it, no cell is both frontier
\* and visited, and every cell whose parent is set is in the container or
\* visited.
C17_FrontierIsContainer ==
    Solving =>
        /\ FrontCells = Container
        /\ FrontCells \cap VisitedCells = {}
        /\ \A i \in AllIdx :
              parent[i] # -1 => (i \in Container \/ i \in VisitedCells)

\* the head of an iteration with several cells waiting and several visited
C17_Witness ==
    /\ Solving
    /\ Cardinality(Container) >= 2
    /\ Cardinality(VisitedCells) >= 2
    /\ \E i \in OpenCells : parent[i] = -1

----------------------------------------------------------------------------
(* C16: the (row, col) of every array access (Spec) *)

\* generate_maze: the accesses of the statement or loop iteration that runs
\* next.  Lines 130-131 and 138 at the start; in the loop the vis reads behind
\* the test of line 149 and, for every direction that may be picked, the wall
\* cell written at line 157 and the vis entry written at line 158.
GenAccesses ==
    IF pc = "generate"
    THEN {<<r, c>> : r \in 0 .. (rows - 1), c \in 0 .. (cols - 1)} \cup {<<1, 1>>}
    ELSE IF pc = "gen_loop" /\ Len(stack) > 0
    THEN LET r == stack[Len(stack)][1]
             c == stack[Len(stack)][2]
             choices == GenChoices(r, c, vis)
         IN  {<<r + dirs[i + 1][1], c + dirs[i + 1][2]>> :
                 i \in {k \in 0 .. 3 :
                          GenInside(r + dirs[k + 1][1], c + dirs[k + 1][2])}}
             \cup UNION {{<<r + dirs[choices[j] + 1][1] \div 2,
                            c + dirs[choices[j] + 1][2] \div 2>>,
                          <<r + dirs[choices[j] + 1][1],
                            c + dirs[choices[j] + 1][2]>>} :
                         j \in 1 .. Len(choices)}
    ELSE {}

\* solve_bfs / solve_dfs: start at lines 281-282 / 321-322; in the loop the
\* popped cell (lines 287-289) and every neighbour that passes is_inside
\* (lines 296-302 / 341-346)
SolveAccesses ==
    IF pc = "solve" THEN {<<sr, sc>>}
    ELSE IF Solving /\ ~FrontierEmpty
    THEN {NextPop} \cup
         (IF IsEnd(NextPop[1], NextPop[2]) THEN {}
          ELSE {<<NextPop[1] + nbrs4[k][1], NextPop[2] + nbrs4[k][2]>> :
                   k \in {j \in 1 .. 4 :
                            is_inside(NextPop[1] + nbrs4[j][1],
                                      NextPop[2] + nbrs4[j][2])}})
    ELSE {}

\* reconstruct_and_mark: parent[idx] at line 259; rr, cc at lines 262-264
ReconAccesses ==
    IF pc = "reconstruct" THEN {<<er, ec>>}
    ELSE IF pc = "recon_loop" /\ ReconWalking(cur)
    THEN {<<cur \div cols, cur % cols>>}
    ELSE {}

\* C16: in every step of generation, search and reconstruction each access to
\* the cell, mark, parent and vis arrays uses a (row, col) with
\* 0 <= row < rows and 0 <= col < cols; reconstruct_and_mark's cur, when it is
\* used as an index, lies in 0 .. rows*cols - 1.
C16_AccessesInBounds ==
    /\ \A a \in GenAccesses \cup SolveAccesses \cup ReconAccesses :
          a[1] >= 0 /\ a[1] < rows /\ a[2] >= 0 /\ a[2] < cols
    /\ (pc = "recon_loop" /\ ReconWalking(cur)) => cur \in AllIdx

\* an iteration of generate_maze in a corner room, where two of the four
\* directions lead outside the grid, on a grid with more than one room
C16_Witness ==
    /\ pc = "gen_loop"
    /\ Len(stack) > 0
    /\ stack[Len(stack)] = <<rows - 2, cols - 2>>
    /\ rows >= 5
    /\ cols >= 5
    /\ Cardinality(GenAccesses) >= 1

----------------------------------------------------------------------------
(* C18: solve_bfs and solve_dfs on a generated maze (Spec) *)

\* the open cells that lie on a shortest way from start to end; on a maze
\* with one simple path from start to end these are the cells of that path
BetweenCells ==
    {x \in OpenCells :
        /\ Dist(StartIdx, x) >= 0
        /\ Dist(x, EndIdx) >= 0
        /\ Dist(StartIdx, x) + Dist(x, EndIdx) = Dist(StartIdx, EndIdx)}

\* C18: on a maze made by generate_maze there is one simple path from (1,1)
\* to (rows-2, cols-2), and solve_bfs as well as solve_dfs, whatever the
\* shuffles, mark exactly its cells as the path; the two solvers therefore
\* mark the same set.
C18_SamePathBothSolvers ==
    pc = "solved" =>
        /\ CountPaths(StartIdx, EndIdx, {StartIdx}) = 1
        /\ PathCells = BetweenCells
        /\ Cardinality(PathCells) = Dist(StartIdx, EndIdx) + 1

\* solve_dfs has finished on a maze of several rooms after it also visited
\* cells of a dead end, which are not on the path
C18_Witness ==
    /\ pc = "solved"
    /\ UsesDfs
    /\ Cardinality(PathCells) >= 5
    /\ Cardinality(VisitedCells \ PathCells) >= 2

----------------------------------------------------------------------------
(* C19: the capacity of the stack of generate_maze (Spec) *)

\* C19: in generate_maze the stack never holds more than maxcells entries,
\* so every push writes a slot below maxcells; its entries are distinct rooms,
\* and the grid has exactly maxcells rooms.
C19_GenStackWithinCapacity ==
    pc = "gen_loop" =>
        /\ Len(stack) <= maxcells
        /\ Cardinality(Rooms) = maxcells
        /\ CellsOf(stack) \subseteq Rooms
        /\ Cardinality(CellsOf(stack)) = Len(stack)

\* the stack of generate_maze is full: it holds every room of the grid
C19_Witness ==
    /\ pc = "gen_loop"
    /\ maxcells >= 4
    /\ Len(stack) = maxcells

----------------------------------------------------------------------------
(* C20: the capacity of the frontier container (SpecSolve) *)

\* the sum of the counts f[i] over the indices in S
RECURSIVE Total(_, _)
Total(f, S) ==
    IF S = {} THEN 0
    ELSE LET i == CHOOSE j \in S : TRUE
         IN  f[i] + Total(f, S \ {i})

\* C20: in a solve the pushes onto the frontier container number at most
\* rows*cols, less than its capacity rows*cols+5.  The tail of the BFS queue
\* is the number of pushes and its head the number of pops (neither index
\* wraps), so head = tail exactly when the queue holds no element; the DFS
\* stack is never full, so stack_push never drops an element.
C20_ContainerNeverFull ==
    Solving =>
        LET np == Total(hist.pushed, AllIdx)
            npop == Total(hist.popped, AllIdx)
        IN  /\ np <= rows * cols
            /\ npop <= np
            /\ IF UsesDfs
               THEN /\ st.cap = rows * cols + 5
                    /\ Len(st.data) < st.cap
                    /\ Len(st.data) = np - npop
               ELSE /\ q.cap = rows * cols + 5
                    /\ q.tail = np
                    /\ q.head = npop
                    /\ q.tail < q.cap
                    /\ queue_empty(q) <=> (np = npop)

\* every cell of a grid of nine cells has been pushed
C20_Witness ==
    /\ Solving
    /\ rows * cols >= 9
    /\ Total(hist.pushed, AllIdx) = rows * cols

====
